---- MODULE Spec2Model ----
(***************************************************************************)
(* Model of the embeddable chat widget, chatbot-backend/static/            *)
(* i18n_widget.js: the persisted session (getSession), the retrying        *)
(* transport (fetchWithRetry), the submission flow (sendMessageToServer)   *)
(* with its in-flight guard, and the event handlers that call them.        *)
(*                                                                         *)
(* JavaScript runs the handlers one at a time; an async function gives up  *)
(* control only at an await.  Every action below is therefore one run of   *)
(* a handler, or of an async continuation, from the event that starts it   *)
(* to the next await (or to its return).                                    *)
(*                                                                         *)
(* Strings that the code builds by concatenation or serialisation are      *)
(* sequences of pieces: "Bearer " + token is <<"Bearer ", token>>.         *)
(***************************************************************************)
EXTENDS Integers, Sequences, FiniteSets, TLC

VARIABLES
    page,        \* "unloaded" | "loaded" | "crashed": how far the script got
    api,         \* window.ChatWidget is defined (line 240 was reached)
    messagesEl,  \* document.getElementById("messages") found the element
    token,       \* what getToken() returns on this page
    storage,     \* localStorage[STORAGE_KEY]: a stored string, or Null
    session,     \* the module-level `session`
    inFlight,    \* the module-level `inFlight`
    lang,        \* langSelect.value
    log,         \* the children of messagesEl, in order
    frame,       \* one activation of sendMessageToServer per call
    nCalls,      \* calls made so far (clicks and ChatWidget.send)
    nLoads,      \* page loads so far
    inputText,     \* the text last handed to i18nWidget.quickDetectAndApply
    detected,      \* what that call returned
    containerLang  \* the lang attribute of the container it was given

\* The state of window.i18nWidget (lines 2-40); the chat widget never reads it.
i18nVars == <<inputText, detected, containerLang>>

vars == <<page, api, messagesEl, token, storage, session, inFlight, lang, log,
          frame, nCalls, nLoads, i18nVars>>

-----------------------------------------------------------------------------
(* Bounds of the model *)

MaxCalls == 2
MaxLoads == 2
MaxTextLen == 4

(* Program constants *)

MAX_RETRIES == 4
BASE_WAIT_MS == 500

API_CHAT == "/api/chat"
STORAGE_KEY == "chat_widget_session"

-----------------------------------------------------------------------------
(* JavaScript values *)

\* A string is the sequence of its pieces, the empty string is <<>>, and the
\* two nullish values are marked sequences no string of the program equals.
Null == <<"<null>">>
Undefined == <<"<undefined>">>
EmptyString == <<>>

\* JavaScript truthiness of a string or nullish value.
Truthy(v) == v \notin {Null, Undefined, EmptyString}

\* a || b
Or(a, b) == IF Truthy(a) THEN a ELSE b

Calls == 1..MaxCalls
Langs == {"en", "ar"}

-----------------------------------------------------------------------------
(* The session record and its serialisation *)

\* new Date().toISOString() during the n-th load of the page.
Now(n) == "load-" \o ToString(n)

\* Suffixes Math.random().toString(36).slice(2,10) can yield.
GenSuffixes == {"q7w1e5rt", "k3j9x2ab"}

genSessionId(suffix) == <<"sess-", suffix>>

\* Identifiers a server may send back in session_id.
ServerIds == {<<"srv-123">>, <<"srv-456">>}

\* The value of `session` when line 81 never completed.
Unassigned == [session_id |-> Undefined, created_at |-> ""]

\* JSON.stringify of a session object.
Stringify(s) ==
    <<"{\"session_id\":">> \o s.session_id \o <<",\"created_at\":", s.created_at, "}">>

\* JSON.parse of a stored string: the object, or a thrown SyntaxError.
Parse(str) ==
    IF /\ Len(str) >= 4
       /\ str[1] = "{\"session_id\":"
       /\ str[Len(str)] = "}"
       /\ str[Len(str) - 2] = ",\"created_at\":"
    THEN [threw |-> FALSE,
          value |-> [session_id |-> SubSeq(str, 2, Len(str) - 3),
                     created_at |-> str[Len(str) - 1]]]
    ELSE [threw |-> TRUE, value |-> Unassigned]

\* A stored string that is not JSON (a truncated write, another script's value).
CorruptRecord == <<"{\"session_id\":", "sess-", "k3j9">>

\* Mutant of getSession: the new record is not written to storage.
getSessionUnsaved(store, suffix, now) ==
    LET created == Stringify([session_id |-> genSessionId(suffix), created_at |-> now])
        s == IF ~Truthy(store) THEN created ELSE store
        parsed == Parse(s)
    IN  [threw |-> parsed.threw, value |-> parsed.value, storage |-> store]

\* getSession() when genSessionId draws suffix and the clock reads now: what
\* it returns or that it throws, and the storage it leaves.
getSession(store, suffix, now) ==
    LET created == Stringify([session_id |-> genSessionId(suffix), created_at |-> now])
        s == IF ~Truthy(store) THEN created ELSE store
        parsed == Parse(s)
    IN  [threw |-> parsed.threw, value |-> parsed.value, storage |-> s]

-----------------------------------------------------------------------------
(* The message log.  Texts are written in ASCII: a dash stands for the em  *)
(* dash of the source, and Arabic phrases are marked (ar).                 *)

BusyText == <<"Please wait - processing previous message.">>
NetworkErrorText == <<"Network error - please try again.">>
NoReplyText == <<"No reply from server">>

GreetingText(l) ==
    IF l = "ar" THEN <<"(ar) Hello! How can I help you?">>
    ELSE <<"Hello! How can I help you today?">>

\* appendMessage({sender, text}) on the log l: the new log, or a TypeError
\* when messagesEl is null (line 113).
appendMessage(l, el, sender, text) ==
    IF el
    THEN [threw |-> FALSE,
          log |-> Append(l, [sender |-> IF sender = "user" THEN "user" ELSE "bot",
                             text |-> text])]
    ELSE [threw |-> TRUE, log |-> l]

-----------------------------------------------------------------------------
(* Requests *)

NoHeaders == [xcs |-> Undefined, auth |-> Undefined, ctype |-> Undefined]
NoBody == [enc |-> "none", file |-> Undefined, session_id |-> Undefined,
           message |-> Undefined, language |-> "", intent |-> Undefined]
NoOpts == [headers |-> NoHeaders, body |-> NoBody]

\* Lines 150-167: the options sendMessageToServer hands to fetchWithRetry.
\* A file is modelled by its name, so `file && file.name` is the file.
ComposeOpts(sess, language, messageText, file, intent) ==
    IF Truthy(file)
    THEN [headers |-> NoHeaders,
          body |-> [enc |-> "multipart",
                    file |-> file,
                    session_id |-> sess.session_id,
                    message |-> Or(messageText, EmptyString),
                    language |-> IF language = "" THEN "en" ELSE language,
                    intent |-> IF Truthy(intent) THEN intent ELSE Undefined]]
    ELSE [headers |-> [NoHeaders EXCEPT !.ctype = <<"application/json">>],
          body |-> [enc |-> "json",
                    file |-> Undefined,
                    session_id |-> sess.session_id,
                    message |-> messageText,
                    language |-> IF language = "" THEN "en" ELSE language,
                    intent |-> Or(intent, Null)]]

\* Lines 119-122: the headers fetchWithRetry sets before every fetch.
AttachHeaders(opts, sess, tok) ==
    [opts EXCEPT !.headers.xcs = sess.session_id,
                 !.headers.auth = IF Truthy(tok) /\ ~Truthy(opts.headers.auth)
                                  THEN <<"Bearer ">> \o tok
                                  ELSE opts.headers.auth]

\* Mutants of Retryable: one attempt too many; any failure status retried.
RetryableOnceMore(status, attempt) == status = 429 /\ attempt <= MAX_RETRIES
RetryableAnyFailure(status, attempt) == status >= 400 /\ attempt < MAX_RETRIES

\* Line 125: whether a response is retried.
Retryable(status, attempt) == status = 429 /\ attempt < MAX_RETRIES

RECURSIVE Pow2(_)
Pow2(n) == IF n = 0 THEN 1 ELSE 2 * Pow2(n - 1)

NaN == -1
Digits == <<"0", "1", "2", "3", "4", "5", "6", "7", "8", "9">>
IsDigit(c) == \E d \in 1..10 : Digits[d] = c
DigitValue(c) == (CHOOSE d \in 1..10 : Digits[d] = c) - 1

\* parseInt(s, 10) of a string given character by character: the value of
\* its leading digits, NaN when it has none.
RECURSIVE ParseDigits(_, _)
ParseDigits(s, acc) ==
    IF s = <<>> \/ ~IsDigit(Head(s)) THEN acc
    ELSE ParseDigits(Tail(s), 10 * acc + DigitValue(Head(s)))

parseInt(s) == IF s = <<>> \/ ~IsDigit(Head(s)) THEN NaN ELSE ParseDigits(s, 0)

\* Mutants of WaitMs: the exponent counted from 1; the header read as
\* milliseconds.
WaitMsFromOne(ra, attempt) ==
    IF Truthy(ra)
    THEN (IF parseInt(ra) = NaN THEN 0 ELSE parseInt(ra) * 1000)
    ELSE Pow2(attempt + 1) * BASE_WAIT_MS
WaitMsUnscaled(ra, attempt) ==
    IF Truthy(ra)
    THEN (IF parseInt(ra) = NaN THEN 0 ELSE parseInt(ra))
    ELSE Pow2(attempt) * BASE_WAIT_MS

\* Lines 126-127: the wait before the next attempt; setTimeout treats NaN as 0.
WaitMs(ra, attempt) ==
    IF Truthy(ra)
    THEN (IF parseInt(ra) = NaN THEN 0 ELSE parseInt(ra) * 1000)
    ELSE Pow2(attempt) * BASE_WAIT_MS

\* Mutants of Adopts: the server's id is never taken over; the id of the
\* body is taken over without the test that it is there.
AdoptsNever(data, sess) == FALSE
AdoptsWithoutId(data, sess) == data.session_id # sess.session_id

\* Line 177: whether a parsed success body replaces the session id.
Adopts(data, sess) ==
    Truthy(data.session_id) /\ data.session_id # sess.session_id

\* Mutant of Busy: no guard.
BusyNever(flag) == FALSE

\* Line 136: the in-flight guard.
Busy(flag) == flag

\* Mutant of FlagAfterBusyReturn: the guard's return runs the finally block.
FlagClearedByBusyReturn(flag) == FALSE

\* Lines 136-139: the guard returns before the try block, so the finally
\* block of line 188 does not run and the flag keeps its value.
FlagAfterBusyReturn(flag) == flag

\* Mutant of EmptySubmission: a call without text is let through.
EmptySubmissionLetThrough(messageText, file) == FALSE

\* Line 140: !messageText && !file.
EmptySubmission(messageText, file) == ~Truthy(messageText) /\ ~Truthy(file)

\* Line 173: resp.ok.
Ok(status) == status \in 200..299

\* Lines 217-222: the prompt of a quick-intent button in the language l.
PromptFor(intent, l) ==
    LET map == [inspiration |-> IF l = "ar" THEN <<"(ar) I want inspiration">>
                                ELSE <<"Show me product inspiration">>,
                faq |-> IF l = "ar" THEN <<"(ar) I have a question about sizes and returns">>
                        ELSE <<"I have a question about sizes and returns">>,
                complaint |-> IF l = "ar" THEN <<"(ar) I want to file a complaint">>
                              ELSE <<"I want to file a complaint">>]
    IN  IF Len(intent) = 1 /\ intent[1] \in DOMAIN map
        THEN Or(map[intent[1]], intent)
        ELSE intent

-----------------------------------------------------------------------------
(* Inputs the environment can supply *)

Files == {Null, <<"a.png">>}
\* The fields of the object handed to ChatWidget.send, each given or not.
ApiMessages == {Undefined, <<"hi">>}
ApiFiles == {Undefined, <<"a.png">>}
QuickIntents == {<<"faq">>}
ApiIntents == {Undefined, <<"faq">>}
Tokens == {Null, <<"tok">>}

\* resp.headers.get("Retry-After"): null, or the header's characters.
RetryAfters == {Null, <<"0">>, <<"2">>, <<"1", "0">>}

\* Responses of the server: status, status text (empty over HTTP/2) and the
\* Retry-After header, which only a 429 carries.
Responses ==
    {[status |-> 200, statusText |-> <<"OK">>, ra |-> Null]}
    \cup {[status |-> 500, statusText |-> EmptyString, ra |-> Null]}
    \cup [status : {429}, statusText : {EmptyString, <<"Too Many Requests">>},
          ra : RetryAfters]

\* A response body: text that does not parse, or a JSON object with the
\* documented fields (line 44), each present or not.
Objects ==
    [reply : {Undefined, <<"hello">>},
     session_id : {Undefined, EmptyString} \cup ServerIds,
     error : {Undefined, <<"bad request">>}]
EmptyObject == [reply |-> Undefined, session_id |-> Undefined, error |-> Undefined]
Bodies == [parses : {TRUE}, value : Objects] \cup {[parses |-> FALSE, value |-> EmptyObject]}

-----------------------------------------------------------------------------
(* Activations of sendMessageToServer *)

\* pc: "none" not called yet; "fetch" awaiting fetch (line 124); "wait"
\* awaiting the backoff timer (line 128); "json" awaiting resp.json() (line
\* 171); "done" returned or thrown.  nreq counts the calls of fetch the
\* activation has made; the other fields are the locals of fetchWithRetry
\* and of sendMessageToServer, gone when the function returns.
NoFrame == [pc |-> "none", attempt |-> 0, nreq |-> 0, opts |-> NoOpts,
            status |-> 0, statusText |-> EmptyString, ra |-> Null, waitMs |-> 0]
DoneFrame == [NoFrame EXCEPT !.pc = "done"]

\* fetchWithRetry(url, opts, attempt) up to its await of fetch.
Issue(fr, opts, attempt, sess, tok) ==
    [fr EXCEPT !.pc = "fetch",
               !.attempt = attempt,
               !.nreq = fr.nreq + 1,
               !.opts = AttachHeaders(opts, sess, tok),
               !.ra = Null,
               !.waitMs = 0]

\* Line 189: the flag after the finally block.
Released == FALSE

\* sendMessageToServer(messageText, file, intent) up to its first await.
\* The guard and the validation return; otherwise the flag is set and the
\* user's bubble appended before the try block is entered, so a failure of
\* that appendMessage leaves the function with the flag set.
SendMessageToServer(messageText, file, intent) ==
    LET i == nCalls + 1
        busy == appendMessage(log, messagesEl, "bot", BusyText)
        shown == appendMessage(log, messagesEl, "user",
                               Or(Or(messageText, file), EmptyString))
    IN  /\ nCalls' = i
        /\ IF Busy(inFlight)
           THEN /\ log' = busy.log
                /\ frame' = [frame EXCEPT ![i] = DoneFrame]
                /\ inFlight' = FlagAfterBusyReturn(inFlight)
           ELSE IF EmptySubmission(messageText, file)
           THEN /\ frame' = [frame EXCEPT ![i] = DoneFrame]
                /\ UNCHANGED <<log, inFlight>>
           ELSE /\ inFlight' = TRUE
                /\ log' = shown.log
                /\ frame' = [frame EXCEPT ![i] =
                       IF shown.threw THEN DoneFrame
                       ELSE Issue(NoFrame,
                                  ComposeOpts(session, lang, messageText, file, intent),
                                  0, session, token)]
        /\ UNCHANGED <<page, api, messagesEl, token, i18nVars, storage, session, lang, nLoads>>

-----------------------------------------------------------------------------
(* Page load: the top-level statements of the script, lines 47-243 *)

Load(suffix, l) ==
    LET r == getSession(storage, suffix, Now(nLoads + 1))
        greeted == appendMessage(<<>>, messagesEl, "bot", GreetingText(l))
    IN  /\ nLoads < MaxLoads
        /\ nLoads' = nLoads + 1
        /\ storage' = r.storage
        /\ inFlight' = FALSE
        \* a reload discards the previous document and its pending callbacks
        /\ frame' = [i \in Calls |-> IF frame[i].pc = "none" THEN NoFrame ELSE DoneFrame]
        /\ IF r.threw
           THEN \* line 81 throws: nothing after it runs
                /\ page' = "crashed"
                /\ session' = Unassigned
                /\ api' = FALSE
                /\ log' = <<>>
                /\ UNCHANGED lang
           ELSE /\ page' = "loaded"
                /\ session' = r.value
                /\ lang' = l
                /\ log' = greeted.log
                /\ api' = ~greeted.threw
        /\ UNCHANGED <<messagesEl, token, i18nVars, nCalls>>

-----------------------------------------------------------------------------
(* Event handlers *)

RECURSIVE TrimLeft(_)
TrimLeft(s) == IF s # <<>> /\ Head(s) = " " THEN TrimLeft(Tail(s)) ELSE s

RECURSIVE TrimRight(_)
TrimRight(s) ==
    IF s # <<>> /\ s[Len(s)] = " " THEN TrimRight(SubSeq(s, 1, Len(s) - 1)) ELSE s

\* String.prototype.trim, whitespace being the piece " ".
Trim(s) == TrimRight(TrimLeft(s))

InputValues == {<<" ">>, <<"hi">>, <<" ", "hi", " ">>}

\* Mutant of SendBtnClick: the handler hands every click on, without the
\* test of line 199.
SendBtnClickUnchecked(value, file) ==
    /\ page = "loaded"
    /\ nCalls < MaxCalls
    /\ SendMessageToServer(Trim(value), file, Null)

\* Lines 196-203 (and the Enter key, lines 205-210, which clicks the button).
\* The content of the input field and of the file input is the handler's
\* input; clearing them (lines 201-202) leaves no state behind.
SendBtnClick(value, file) ==
    LET text == Trim(value)
    IN  /\ page = "loaded"
        /\ nCalls < MaxCalls
        /\ IF ~Truthy(text) /\ ~Truthy(file)
           THEN /\ nCalls' = nCalls + 1
                /\ frame' = [frame EXCEPT ![nCalls + 1] = DoneFrame]
                /\ UNCHANGED <<page, api, messagesEl, token, i18nVars, storage, session,
                               inFlight, lang, log, nLoads>>
           ELSE SendMessageToServer(text, file, Null)

\* Lines 215-224.
QuickBtnClick(intent) ==
    /\ page = "loaded"
    /\ nCalls < MaxCalls
    /\ SendMessageToServer(PromptFor(intent, lang), Null, intent)

\* Mutant of ChatWidgetSend: the file of the call is not passed on.
ChatWidgetSendDropsFile(message, file, intent) ==
    /\ page = "loaded"
    /\ api
    /\ nCalls < MaxCalls
    /\ SendMessageToServer(Or(message, EmptyString), Null, Or(intent, Null))

\* Line 241.
ChatWidgetSend(message, file, intent) ==
    /\ page = "loaded"
    /\ api
    /\ nCalls < MaxCalls
    /\ SendMessageToServer(Or(message, EmptyString), Or(file, Null), Or(intent, Null))

\* Line 212.
LangSelectChange(l) ==
    /\ page = "loaded"
    /\ lang' = l
    /\ UNCHANGED <<page, api, messagesEl, token, i18nVars, storage, session, inFlight, log,
                   frame, nCalls, nLoads>>

\* Characters by class: "ar" in U+0600-06FF or U+0750-077F, "arx" in the
\* other ranges of AR_RE (U+08A0-08FF, U+FB50-FDFF, U+FE70-FEFF), "lat" in
\* A-Z a-z, "dig" a digit, " " white space.
TypedValues ==
    {<<"lat">>, <<"arx">>, <<"lat", "ar">>, <<"lat", "lat", "ar">>, <<"dig", " ">>}

\* Mutant of ArabicReTest: the Arabic characters must not be outnumbered by
\* Latin letters, as in the detector.
ArabicReTestAgainstLatin(val) ==
    /\ \E k \in 1..Len(val) : val[k] = "ar"
    /\ Cardinality({k \in 1..Len(val) : val[k] = "ar"})
           >= Cardinality({k \in 1..Len(val) : val[k] = "lat"})

\* Line 229: arabicRe.test(val).
ArabicReTest(val) == \E k \in 1..Len(val) : val[k] = "ar"

\* Lines 230-233: langSelect.value after the handler has seen val.
LangAfterInput(l, val) == IF ArabicReTest(val) /\ l # "ar" THEN "ar" ELSE l

\* Lines 227-234.
InputEvent(val) ==
    /\ page = "loaded"
    /\ lang' = LangAfterInput(lang, val)
    /\ UNCHANGED <<page, api, messagesEl, token, i18nVars, storage, session, inFlight, log,
                   frame, nCalls, nLoads>>

-----------------------------------------------------------------------------
(* Continuations of a submission *)

Active(i) == frame[i].pc \in {"fetch", "wait", "json"}

\* Line 124 resolves: the response is retried after a wait, or returned.
FetchResolve(i, resp) ==
    /\ frame[i].pc = "fetch"
    /\ frame' = [frame EXCEPT ![i] =
           IF Retryable(resp.status, frame[i].attempt)
           THEN [@ EXCEPT !.pc = "wait", !.status = resp.status, !.ra = resp.ra,
                          !.waitMs = WaitMs(resp.ra, frame[i].attempt)]
           ELSE [@ EXCEPT !.pc = "json", !.status = resp.status,
                          !.statusText = resp.statusText]]
    /\ UNCHANGED <<page, api, messagesEl, token, i18nVars, storage, session, inFlight, lang,
                   log, nCalls, nLoads>>

\* Mutant of TimerFire: the retry reads the locale again for its body.
TimerFireRereadsLocale(i) ==
    /\ frame[i].pc = "wait"
    /\ frame' = [frame EXCEPT ![i] =
           Issue([@ EXCEPT !.status = 0],
                 [frame[i].opts EXCEPT !.body.language = lang],
                 frame[i].attempt + 1, session, token)]
    /\ UNCHANGED <<page, api, messagesEl, token, i18nVars, storage, session,
                   inFlight, lang, log, nCalls, nLoads>>

\* Line 128: the timer fires and line 129 issues the next attempt.
TimerFire(i) ==
    /\ frame[i].pc = "wait"
    /\ frame' = [frame EXCEPT ![i] =
           Issue([@ EXCEPT !.status = 0], frame[i].opts, frame[i].attempt + 1,
                 session, token)]
    /\ UNCHANGED <<page, api, messagesEl, token, i18nVars, storage, session, inFlight, lang,
                   log, nCalls, nLoads>>

\* Mutant of FetchReject: the catch block swallows the error.
FetchRejectSilent(i) ==
    /\ frame[i].pc = "fetch"
    /\ inFlight' = FALSE
    /\ frame' = [frame EXCEPT ![i] = DoneFrame]
    /\ UNCHANGED <<page, api, messagesEl, token, i18nVars, storage, session, lang, log,
                   nCalls, nLoads>>

\* Line 124 rejects: the exception leaves fetchWithRetry and is caught at
\* line 185; the finally block runs whether or not line 187 throws.
FetchReject(i) ==
    /\ frame[i].pc = "fetch"
    /\ log' = appendMessage(log, messagesEl, "bot", NetworkErrorText).log
    /\ inFlight' = Released
    /\ frame' = [frame EXCEPT ![i] = DoneFrame]
    /\ UNCHANGED <<page, api, messagesEl, token, i18nVars, storage, session, lang, nCalls,
                   nLoads>>

\* Mutant of ErrText: the status text is left out of the fallbacks.
ErrTextWithoutStatusText(data, status, statusText) ==
    Or(data.error, <<"HTTP ", ToString(status)>>)

\* Line 182.
ErrText(data, status, statusText) ==
    Or(Or(data.error, statusText), <<"HTTP ", ToString(status)>>)

\* Line 171 settles (a rejection gives data = {}), then lines 173-190.
JsonResolve(i, body) ==
    LET data == IF body.parses THEN body.value ELSE EmptyObject
        fr == frame[i]
        reply == appendMessage(log, messagesEl, "bot", Or(data.reply, NoReplyText))
        error == appendMessage(log, messagesEl, "bot",
                               <<"Error: ">> \o ErrText(data, fr.status, fr.statusText))
        shown == IF Ok(fr.status) THEN reply ELSE error
        adopted == [session EXCEPT !.session_id = data.session_id]
    IN  /\ fr.pc = "json"
        /\ IF shown.threw
           THEN \* caught at line 185; line 187 throws again
                /\ UNCHANGED <<log, session, storage>>
           ELSE /\ log' = shown.log
                /\ IF Ok(fr.status) /\ Adopts(data, session)
                   THEN /\ session' = adopted
                        /\ storage' = Stringify(adopted)
                   ELSE UNCHANGED <<session, storage>>
        /\ inFlight' = Released
        /\ frame' = [frame EXCEPT ![i] = DoneFrame]
        /\ UNCHANGED <<page, api, messagesEl, token, i18nVars, lang, nCalls, nLoads>>

-----------------------------------------------------------------------------
(* window.i18nWidget, lines 2-40 *)

\* A text is the sequence of its characters, each given by its class (see
\* TypedValues).
Chars == {"ar", "arx", "lat", "dig", " "}
Texts == UNION {[1..n -> Chars] : n \in 0..MaxTextLen}

\* What a caller may hand over as inputText: a string, null or nothing.
DetectInputs == Texts \cup {Null, Undefined}

\* Line 3: the character class of AR_RE.
ArabicRanges == {"ar", "arx"}
InArabicRanges(c) == c \in ArabicRanges

\* Line 8: the character class [A-Za-z].
LatinLetters == {"lat"}
IsLatinLetter(c) == c \in LatinLetters

\* text.match(re) || [] for an expression without the g flag that matches
\* the characters of class: the array of the first match alone (the
\* expression has no groups), or [].
MatchFirst(t, class) ==
    IF \E k \in 1..Len(t) : t[k] \in class
    THEN <<t[CHOOSE k \in 1..Len(t) :
                 t[k] \in class /\ \A j \in 1..k - 1 : t[j] \notin class]>>
    ELSE <<>>

\* text.match(re) || [] for an expression with the g flag: every match.
RECURSIVE MatchAll(_, _)
MatchAll(t, class) ==
    IF t = <<>> THEN <<>>
    ELSE (IF Head(t) \in class THEN <<Head(t)>> ELSE <<>>) \o MatchAll(Tail(t), class)

\* Line 7: AR_RE is written without the g flag.
ArMatches(t) == Len(MatchFirst(t, ArabicRanges))

\* Mutant of LatinMatches: the expression written without the g flag.
LatinMatchesFirstOnly(t) == Len(MatchFirst(t, LatinLetters))

\* Line 8: /[A-Za-z]/g.
LatinMatches(t) == Len(MatchAll(t, LatinLetters))

\* Lines 5-12; the result is <<"ar">>, <<"en">> or Null.
detectClientLangFromInput(t) ==
    IF ~Truthy(t) \/ Len(Trim(t)) = 0 THEN Null
    ELSE LET arMatches == ArMatches(t)
             latinMatches == LatinMatches(t)
         IN  IF arMatches >= 2 /\ arMatches >= latinMatches THEN <<"ar">>
             ELSE IF latinMatches >= 2 /\ latinMatches >= arMatches THEN <<"en">>
             ELSE Null

\* Lines 15-26, for a container that exists: the lang attribute it is left
\* with (dir and the rtl class follow it).
setLanguageOnWidget(l) == IF l = <<"ar">> THEN "ar" ELSE "en"

\* Lines 27-38: quickDetectAndApply(containerEl, inputText).
QuickDetectAndApply ==
    LET l == detectClientLangFromInput(inputText)
    IN  /\ detected' = l
        /\ containerLang' = IF Truthy(l) THEN setLanguageOnWidget(l) ELSE containerLang
        /\ UNCHANGED <<page, api, messagesEl, token, storage, session, inFlight,
                       lang, log, frame, nCalls, nLoads, inputText>>

-----------------------------------------------------------------------------
(* Specifications *)

\* Nothing stored yet, or a string that is not a session record; a record of
\* an earlier visit is what a reload finds.
InitialStorage == {Null, CorruptRecord}

\* The chat widget before the script has run.
InitWidget(elements, tokens) ==
    /\ page = "unloaded"
    /\ api = FALSE
    /\ messagesEl \in elements
    /\ token \in tokens
    /\ storage \in InitialStorage
    /\ session = Unassigned
    /\ inFlight = FALSE
    /\ lang = "en"
    /\ log = <<>>
    /\ frame = [i \in Calls |-> NoFrame]
    /\ nCalls = 0
    /\ nLoads = 0

\* quickDetectAndApply has not been called.
InitWith(elements, tokens) ==
    /\ InitWidget(elements, tokens)
    /\ inputText = Undefined
    /\ detected = Undefined
    /\ containerLang = ""

\* A host page that has the widget's markup and supplies a token.
Init == InitWith({TRUE}, {<<"tok">>})

Next ==
    \/ \E suffix \in GenSuffixes, l \in Langs : Load(suffix, l)
    \/ \E value \in InputValues, file \in Files : SendBtnClick(value, file)
    \/ \E intent \in QuickIntents : QuickBtnClick(intent)
    \/ \E message \in ApiMessages, file \in ApiFiles, intent \in ApiIntents :
          ChatWidgetSend(message, file, intent)
    \/ \E l \in Langs : LangSelectChange(l)
    \/ \E val \in TypedValues : InputEvent(val)
    \/ \E i \in Calls, resp \in Responses : FetchResolve(i, resp)
    \/ \E i \in Calls : TimerFire(i)
    \/ \E i \in Calls : FetchReject(i)
    \/ \E i \in Calls, body \in Bodies : JsonResolve(i, body)

Spec == Init /\ [][Next]_vars

\* Any host page: the element with id "messages" may be missing, and the
\* page may supply no token.
InitAnyPage == InitWith(BOOLEAN, Tokens)

\* Every request resolves or rejects, every body read settles and every
\* backoff timer fires.
Fairness ==
    /\ WF_vars(\E i \in Calls : (\E resp \in Responses : FetchResolve(i, resp)) \/ FetchReject(i))
    /\ WF_vars(\E i \in Calls : TimerFire(i))
    /\ WF_vars(\E i \in Calls, body \in Bodies : JsonResolve(i, body))

FairSpec == Init /\ [][Next]_vars /\ Fairness

FairSpecAnyPage == InitAnyPage /\ [][Next]_vars /\ Fairness

\* The language detector on its own: a host page calls quickDetectAndApply
\* with any text of up to MaxTextLen characters, or with no text.
InitDetect ==
    /\ InitWidget({TRUE}, {<<"tok">>})
    /\ inputText \in DetectInputs
    /\ detected = Undefined
    /\ containerLang = ""

NextDetect == QuickDetectAndApply

SpecDetect == InitDetect /\ [][NextDetect]_vars

-----------------------------------------------------------------------------
(* Claims *)

\* A submission is outstanding from its first fetch until sendMessageToServer
\* returns: awaiting a response, a backoff timer, or the response's body.
Outstanding == {i \in Calls : Active(i)}

\* C1: in every reachable state at most one submission is outstanding, and
\* inFlight is true exactly while one is.
C1_SingleInFlight ==
    /\ Cardinality(Outstanding) <= 1
    /\ inFlight <=> Outstanding # {}

\* A submission is waiting out a backoff while a later call has already
\* been turned away, and the flag is still set.
C1_Witness ==
    \E i, j \in Calls :
        /\ i < j
        /\ frame[i].pc = "wait"
        /\ frame[j].pc = "done"
        /\ inFlight

\* C2: a call made while inFlight is true issues no request and leaves
\* inFlight, the session, the persisted session and the locale as they were;
\* the activation of the running submission is untouched, so it settles as
\* it would have without the call.
C2_BusyCallChangesNothing ==
    [][(inFlight /\ nCalls' = nCalls + 1) =>
        /\ inFlight'
        /\ session' = session
        /\ storage' = storage
        /\ lang' = lang
        /\ frame'[nCalls'].pc = "done"
        /\ frame'[nCalls'].nreq = 0
        /\ \A i \in Calls : i # nCalls' => frame'[i] = frame[i]]_vars

\* The busy notice is the last bubble and the first submission is still
\* awaiting its response.
C2_Witness ==
    /\ inFlight
    /\ log # <<>>
    /\ log[Len(log)] = [sender |-> "bot", text |-> BusyText]
    /\ \E i \in Calls : frame[i].pc = "fetch" /\ frame[i].nreq = 1

\* C3: a submission whose every attempt is answered 429 issues exactly 5
\* requests (attempts 0..MAX_RETRIES); the fifth 429 is returned to
\* sendMessageToServer, which renders it as an "Error: ..." bubble and not as
\* the network-error bubble; no submission issues more than 5 requests.
C3_RateLimitExhaustion ==
    /\ [](\A i \in Calls :
            /\ frame[i].nreq <= 5
            /\ frame[i].nreq <= MAX_RETRIES + 1
            /\ (frame[i].pc = "json" /\ frame[i].status = 429) =>
                   (frame[i].nreq = 5 /\ frame[i].attempt = MAX_RETRIES))
    /\ [][\A i \in Calls :
            (frame[i].pc = "json" /\ frame[i].status = 429 /\ frame'[i].pc = "done") =>
            \A body \in Bodies :
            JsonResolve(i, body) =>
                /\ Len(log') = Len(log) + 1
                /\ log'[Len(log')].sender = "bot"
                /\ Head(log'[Len(log')].text) = "Error: "
                /\ log'[Len(log')].text # NetworkErrorText
                /\ ~inFlight']_vars

\* The bubble of a fifth 429 that had neither an error field nor a status
\* text.
C3_Witness ==
    \E k \in 1..Len(log) : log[k] = [sender |-> "bot", text |-> <<"Error: ", "HTTP ", "429">>]

\* C4: every call that sets inFlight sets it back to false on every path,
\* a failure after the flag is set included, given that requests settle and
\* timers fire: whenever the flag is set it is eventually clear again.
C4_FlagEventuallyReleased == inFlight ~> ~inFlight

\* C5: a response whose status is not 429 is returned at the attempt that
\* received it, and no request follows it; a rejected fetch ends the
\* submission at once with the network-error bubble.
C5_NoRetryExceptOn429 ==
    [][\A i \in Calls :
        /\ \A resp \in Responses :
               (frame[i].pc = "fetch" /\ resp.status # 429 /\ FetchResolve(i, resp)) =>
                   /\ frame'[i].pc = "json"
                   /\ frame'[i].status = resp.status
                   /\ frame'[i].attempt = frame[i].attempt
                   /\ frame'[i].nreq = frame[i].nreq
        /\ (frame[i].pc = "json" /\ frame[i].status # 429) =>
               /\ frame'[i].pc \in {"json", "done"}
               /\ frame'[i].pc = "json" => frame'[i] = frame[i]
        /\ FetchReject(i) =>
               /\ frame'[i].pc = "done"
               /\ log' = Append(log, [sender |-> "bot", text |-> NetworkErrorText])
               /\ ~inFlight'
               /\ \A j \in Calls : frame'[j].pc # "fetch"]_vars

\* A 500 received by the third attempt is handed to sendMessageToServer.
C5_Witness ==
    \E i \in Calls :
        /\ frame[i].pc = "json"
        /\ frame[i].status = 500
        /\ frame[i].attempt = 2
        /\ frame[i].nreq = 3

ExponentialWaits == <<500, 1000, 2000, 4000>>

\* C6: after a 429 without a Retry-After header the wait that follows the
\* n-th request is 500, 1000, 2000, 4000 ms for n = 1..4, and no wait
\* follows the fifth request.
C6_ExponentialBackoff ==
    \A i \in Calls :
        frame[i].pc = "wait" =>
            /\ frame[i].nreq \in 1..4
            /\ frame[i].attempt = frame[i].nreq - 1
            /\ frame[i].ra = Null => frame[i].waitMs = ExponentialWaits[frame[i].nreq]

\* The last wait of the exponential schedule.
C6_Witness ==
    \E i \in Calls :
        /\ frame[i].pc = "wait"
        /\ frame[i].ra = Null
        /\ frame[i].nreq = 4
        /\ frame[i].waitMs = 4000

\* The whole seconds a Retry-After header of the model states.
HeaderSeconds(ra) ==
    CASE ra = <<"0">> -> 0
      [] ra = <<"2">> -> 2
      [] ra = <<"1", "0">> -> 10

\* C7: after a 429 at attempt n < MAX_RETRIES with a Retry-After header of k
\* seconds the wait is k * 1000 ms whatever n is; without the header it is
\* 500 * 2^n for that attempt's own index.
C7_RetryAfterOverrides ==
    \A i \in Calls :
        frame[i].pc = "wait" =>
            /\ frame[i].attempt < MAX_RETRIES
            /\ frame[i].ra \in RetryAfters
            /\ frame[i].ra # Null => frame[i].waitMs = HeaderSeconds(frame[i].ra) * 1000
            /\ frame[i].ra = Null => frame[i].waitMs = 500 * 2^frame[i].attempt

\* A header of 10 seconds on the fourth attempt.
C7_Witness ==
    \E i \in Calls :
        /\ frame[i].pc = "wait"
        /\ frame[i].ra = <<"1", "0">>
        /\ frame[i].attempt = 3
        /\ frame[i].waitMs = 10000

\* C8: a success response whose body carries a non-empty session_id other
\* than the current one puts that id in the session and in the persisted
\* record, created_at unchanged; the session changes in no other step of a
\* loaded page, and every request in flight carries the current id as
\* X-Client-Session and as the body's session_id.
C8_AdoptedIdIsSent ==
    /\ [](\A i \in Calls :
            frame[i].pc = "fetch" =>
                /\ frame[i].opts.headers.xcs = session.session_id
                /\ frame[i].opts.body.session_id = session.session_id)
    /\ [][\A i \in Calls, body \in Bodies :
            (/\ frame[i].pc = "json"
             /\ frame[i].status \in 200..299
             /\ body.parses
             /\ body.value.session_id \notin {Undefined, EmptyString, session.session_id}
             /\ JsonResolve(i, body)) =>
                /\ session' = [session_id |-> body.value.session_id,
                               created_at |-> session.created_at]
                /\ Parse(storage') = [threw |-> FALSE, value |-> session']]_vars
    /\ [][(session' # session /\ nLoads' = nLoads) =>
            \E i \in Calls, body \in Bodies :
                /\ JsonResolve(i, body)
                /\ session'.session_id = body.value.session_id]_vars

\* A request of a later submission carries the id the server issued.
C8_Witness ==
    \E i \in Calls :
        /\ frame[i].pc = "fetch"
        /\ session.session_id = <<"srv-123">>
        /\ frame[i].opts.headers.xcs = <<"srv-123">>
        /\ frame[i].opts.body.session_id = <<"srv-123">>
        /\ Parse(storage).value = session

\* C9: on a page that loaded (its storage was empty or held this client's
\* record) the session_id is never empty, and getSession called again,
\* whatever genSessionId would draw, returns the in-memory session_id and
\* leaves the storage as it is.
C9_SessionStable ==
    page = "loaded" =>
        /\ Truthy(session.session_id)
        /\ \A suffix \in GenSuffixes :
               LET again == getSession(storage, suffix, Now(nLoads + 1))
               IN  /\ ~again.threw
                   /\ again.value.session_id = session.session_id
                   /\ again.storage = storage

\* A reload after an adoption found the adopted id and the first timestamp.
C9_Witness ==
    /\ page = "loaded"
    /\ nLoads = 2
    /\ log = <<[sender |-> "bot", text |-> GreetingText(lang)]>>
    /\ session = [session_id |-> <<"srv-456">>, created_at |-> Now(1)]

\* C10: getSession does not fail when the stored record is absent or does
\* not parse: after a load the page runs with a non-empty session id that
\* is also the persisted one.
C10_GetSessionNeverFails ==
    nLoads > 0 =>
        /\ page = "loaded"
        /\ Truthy(session.session_id)
        /\ Parse(storage) = [threw |-> FALSE, value |-> session]

\* C11: a call of sendMessageToServer with empty text and no file (the only
\* caller that can make one is ChatWidget.send), in whatever state, issues
\* no request, leaves inFlight as it was, appends no user bubble and leaves
\* the session and its persisted copy unchanged.
C11_EmptyCallHasNoEffect ==
    [][\A message \in ApiMessages, file \in ApiFiles, intent \in ApiIntents :
        (/\ message \in {Undefined, EmptyString}
         /\ file \in {Undefined, Null}
         /\ ChatWidgetSend(message, file, intent)) =>
            /\ frame'[nCalls'].pc = "done"
            /\ frame'[nCalls'].nreq = 0
            /\ \A i \in Calls : i # nCalls' => frame'[i] = frame[i]
            /\ inFlight' = inFlight
            /\ session' = session
            /\ storage' = storage
            /\ \A k \in Len(log) + 1..Len(log') : log'[k].sender # "user"
            /\ SubSeq(log', 1, Len(log)) = log]_vars

\* An empty call was made on an idle page: it returned with nothing sent,
\* nothing shown after the greeting and the flag still clear.
C11_Witness ==
    /\ page = "loaded"
    /\ nCalls = 1
    /\ frame[1] = DoneFrame
    /\ ~inFlight
    /\ log = <<[sender |-> "bot", text |-> GreetingText(lang)]>>

\* The state a handler can change apart from the log: flag, session,
\* persisted session and locale.
WidgetState == <<inFlight, session, storage, lang>>

\* C12 as claimed: an empty submission (no text after the handler's
\* trimming, no file) appends nothing to the log in any state, whether it
\* comes from the send button or from ChatWidget.send.
C12_EmptySubmissionSilent ==
    [][/\ \A value \in InputValues :
            (Trim(value) = EmptyString /\ SendBtnClick(value, Null)) => log' = log
       /\ \A intent \in ApiIntents :
            ChatWidgetSend(Undefined, Undefined, intent) => log' = log]_vars

\* C12 as amended: an empty click of the send button is silent in every
\* state; an empty call of ChatWidget.send is silent while nothing is in
\* flight, and while a submission is in flight it is answered by the
\* in-flight guard with the busy notice; neither changes flag, session,
\* persisted session or locale.
C12_EmptySubmissionSilentUnlessBusy ==
    [][/\ \A value \in InputValues :
            (Trim(value) = EmptyString /\ SendBtnClick(value, Null)) =>
                (log' = log /\ UNCHANGED WidgetState)
       /\ \A intent \in ApiIntents :
            ChatWidgetSend(Undefined, Undefined, intent) =>
                /\ UNCHANGED WidgetState
                /\ ~inFlight => log' = log
                /\ inFlight =>
                       log' = Append(log, [sender |-> "bot", text |-> BusyText])]_vars

\* An empty click made while the first submission awaits its response: the
\* call is spent and the user's bubble is still the last entry of the log.
C12_Witness ==
    /\ nCalls = 2
    /\ inFlight
    /\ frame[1].pc = "fetch"
    /\ frame[2] = DoneFrame
    /\ Len(log) = 2
    /\ log[2].sender = "user"

\* Positions of the log by kind of bubble.  An outcome bubble is a bot
\* bubble after the greeting that is not the busy notice: a reply, an
\* "Error: ..." text or the network-error text.
UserBubbles == {k \in 1..Len(log) : log[k].sender = "user"}
OutcomeBubbles ==
    {k \in 2..Len(log) : log[k].sender = "bot" /\ log[k].text # BusyText}
NextUserBubble(a) ==
    IF \E b \in UserBubbles : b > a
    THEN CHOOSE b \in UserBubbles : b > a /\ \A c \in UserBubbles : c > a => b <= c
    ELSE Len(log) + 1

\* The text sendMessageToServer showed for the submission whose request
\* body is b (line 146).
ShownText(b) == IF Truthy(b.message) THEN b.message ELSE Or(b.file, EmptyString)

\* C13: the log keeps the order of the submissions.  Every user bubble is
\* followed, before the next user bubble, by exactly one outcome bubble
\* (none yet while its submission is in flight), with only busy notices
\* between the two; and the step that appends an outcome bubble is a step
\* of the submission whose user bubble is the last one in the log.
C13_LogFollowsSubmissionOrder ==
    /\ [](\A a \in UserBubbles :
            LET b == NextUserBubble(a)
                outcomes == {k \in OutcomeBubbles : a < k /\ k < b}
            IN  /\ Cardinality(outcomes) = IF b > Len(log) /\ inFlight THEN 0 ELSE 1
                /\ \A k \in outcomes : k = b - 1
                /\ \A k \in OutcomeBubbles : k > 2)
    /\ [][\A i \in Calls :
            (frame[i].pc \in {"fetch", "json"} /\ frame'[i].pc = "done"
             /\ nLoads' = nLoads) =>
                LET a == CHOOSE u \in UserBubbles : \A c \in UserBubbles : c <= u
                IN  /\ UserBubbles # {}
                    /\ log[a].text = ShownText(frame[i].opts.body)
                    /\ \A k \in OutcomeBubbles : k < a
                    /\ Len(log') = Len(log) + 1
                    /\ SubSeq(log', 1, Len(log)) = log
                    /\ Len(log') \in OutcomeBubbles']_vars

\* Two accepted submissions, the first answered with an error and the
\* second with a reply, each bubble in its place.
C13_Witness ==
    /\ Len(log) = 5
    /\ UserBubbles = {2, 4}
    /\ log[3].text = <<"Error: ", "HTTP ", "500">>
    /\ log[5].text = <<"hello">>
    /\ ~inFlight

\* The characters of a text that AR_RE matches, and its letters A-Z a-z.
ArabicCount(t) == Cardinality({k \in 1..Len(t) : InArabicRanges(t[k])})
LatinCount(t) == Cardinality({k \in 1..Len(t) : IsLatinLetter(t[k])})

\* The rule that decides for "ar"; of a string only.
ArRule(t) == ArabicCount(t) >= 2 /\ ArabicCount(t) >= LatinCount(t)

\* C14: for every text detectClientLangFromInput returns "ar" if and only
\* if the text has at least 2 Arabic-range characters and at least as many
\* of them as Latin letters (a tie of 2 or more included).
C14_ArabicRule ==
    (detected # Undefined /\ inputText \in Texts) =>
        (detected = <<"ar">> <=> ArRule(inputText))

\* C15: detectClientLangFromInput returns null for no text, an empty text
\* and a text of white space only; for any other text to which the "ar"
\* rule does not apply it returns "en" if and only if the text has at least
\* 2 Latin letters and at least as many of them as Arabic-range characters,
\* and null otherwise.
C15_EmptyAndLatinRule ==
    detected # Undefined =>
        IF inputText \notin Texts \/ \A k \in 1..Len(inputText) : inputText[k] = " "
        THEN detected = Null
        ELSE ~ArRule(inputText) =>
                 IF LatinCount(inputText) >= 2
                    /\ LatinCount(inputText) >= ArabicCount(inputText)
                 THEN detected = <<"en">>
                 ELSE detected = Null

\* A text of two Latin letters around one Arabic letter was classified.
C15_Witness ==
    /\ inputText = <<"lat", "ar", "lat">>
    /\ detected = <<"en">>
    /\ containerLang = "en"

\* What the input field can hold when the button is clicked, the empty
\* field included.
FieldValues == InputValues \cup {EmptyString}

\* C16 as claimed: from every state, in flight or not, a click of the send
\* button and a call of ChatWidget.send with the same message (the text the
\* click submits), the same file and no intent lead to the same state:
\* same requests, same log, same flag, session and locale.
C16_SendEqualsClick ==
    [][\A value \in FieldValues, file \in Files :
        SendBtnClick(value, file) <=> ChatWidgetSend(Trim(value), file, Undefined)]_vars

\* C16 as amended: the two lead to the same state from every state, except
\* for an empty submission made while another is in flight, which is silent
\* from the button and gets the busy notice from ChatWidget.send.
C16_SendEqualsClickUnlessEmptyAndBusy ==
    [][\A value \in FieldValues, file \in Files :
        IF inFlight /\ Trim(value) = EmptyString /\ file = Null
        THEN /\ SendBtnClick(value, file) => log' = log
             /\ ChatWidgetSend(Trim(value), file, Undefined) =>
                    log' = Append(log, [sender |-> "bot", text |-> BusyText])
        ELSE SendBtnClick(value, file) <=>
                 ChatWidgetSend(Trim(value), file, Undefined)]_vars

\* A submission of a text with a file, which either entry point starts the
\* same way, awaits its response.
C16_Witness ==
    /\ nCalls = 1
    /\ inFlight
    /\ frame[1].pc = "fetch"
    /\ frame[1].opts.body.enc = "multipart"
    /\ frame[1].opts.body.message = <<"hi">>
    /\ frame[1].opts.body.file = <<"a.png">>
    /\ frame[1].opts.body.intent = Undefined
    /\ log[2] = [sender |-> "user", text |-> <<"hi">>]

\* C17: apart from a page load, the session and its persisted copy change
\* only in the step that handles a success response whose body parses and
\* carries a non-empty session_id other than the current one, and that step
\* keeps created_at.  A success response with the current id, with an empty
\* id or with a body that does not parse, a non-success response (a final
\* 429 included) whatever its body carries, a rejected fetch, a call turned
\* away as busy and an empty submission leave both unchanged.
C17_SessionChangesOnlyOnAdoption ==
    [][nLoads' = nLoads =>
        /\ (session' # session \/ storage' # storage) =>
               \E i \in Calls, body \in Bodies :
                   /\ frame[i].pc = "json"
                   /\ frame[i].status \in 200..299
                   /\ body.parses
                   /\ body.value.session_id \notin
                          {Undefined, EmptyString, session.session_id}
                   /\ JsonResolve(i, body)
                   /\ session' = [session_id |-> body.value.session_id,
                                  created_at |-> session.created_at]
                   /\ Parse(storage') = [threw |-> FALSE, value |-> session']
        /\ \A i \in Calls :
               /\ \A body \in Bodies :
                      (/\ frame[i].pc = "json"
                       /\ \/ frame[i].status \notin 200..299
                          \/ ~body.parses
                          \/ body.value.session_id \in
                                 {Undefined, EmptyString, session.session_id}
                       /\ JsonResolve(i, body)) => UNCHANGED <<session, storage>>
               /\ FetchReject(i) => UNCHANGED <<session, storage>>
        /\ nCalls' = nCalls + 1 => UNCHANGED <<session, storage>>]_vars

\* The first submission adopted the server's id; the second ended in an
\* error bubble and the adopted id, with the first timestamp, is still the
\* session and the persisted record.
C17_Witness ==
    /\ nLoads = 1
    /\ ~inFlight
    /\ Len(log) = 5
    /\ log[5] = [sender |-> "bot", text |-> <<"Error: ", "bad request">>]
    /\ session = [session_id |-> <<"srv-123">>, created_at |-> Now(1)]
    /\ Parse(storage) = [threw |-> FALSE, value |-> session]

\* C18: every request of a submission, the first and each retry, carries
\* the headers and the body of the first: the body is composed once, from
\* the session and the locale of the moment the submission starts, and no
\* later step changes it or the headers, a change of locale by selection
\* or by typing during a wait included; the token being fixed, the
\* Authorization header is "Bearer " and that token; and in every request
\* X-Client-Session is the session_id of the body.
C18_RequestsOfASubmissionAgree ==
    /\ [](\A i \in Calls :
            Active(i) =>
                /\ frame[i].opts.headers.xcs = frame[i].opts.body.session_id
                /\ frame[i].opts.headers.auth = <<"Bearer ">> \o token)
    /\ [][\A i \in Calls :
            /\ (frame[i].pc = "none" /\ frame'[i].pc = "fetch") =>
                   /\ frame'[i].nreq = 1
                   /\ frame'[i].opts.body.language = lang
                   /\ frame'[i].opts.body.session_id = session.session_id
            /\ (Active(i) /\ frame'[i].pc # "done") =>
                   /\ frame'[i].opts = frame[i].opts
                   /\ frame'[i].nreq =
                          frame[i].nreq + IF frame[i].pc = "wait" /\ frame'[i].pc = "fetch"
                                          THEN 1 ELSE 0]_vars

\* The third request of a submission composed in English is in flight
\* after the locale has become Arabic.
C18_Witness ==
    \E i \in Calls :
        /\ frame[i].pc = "fetch"
        /\ frame[i].nreq = 3
        /\ frame[i].opts.body.language = "en"
        /\ lang = "ar"

\* A response body that is not JSON.
Unparsable == [parses |-> FALSE, value |-> EmptyObject]

\* C19: when the body of a response does not parse, the submission still
\* ends in its ordinary bubble: for a success status the placeholder reply
\* (not the network-error text), with session and persisted session
\* unchanged; for any other status "Error: " followed by the status text
\* or, when that is empty, by "HTTP " and the status code; in both cases
\* the in-flight flag is cleared.
C19_UnparsableBodyDegrades ==
    [][\A i \in Calls :
        (frame[i].pc = "json" /\ JsonResolve(i, Unparsable)) =>
            /\ ~inFlight'
            /\ frame'[i].pc = "done"
            /\ Len(log') = Len(log) + 1
            /\ SubSeq(log', 1, Len(log)) = log
            /\ log'[Len(log')].sender = "bot"
            /\ log'[Len(log')].text # NetworkErrorText
            /\ IF frame[i].status \in 200..299
               THEN /\ log'[Len(log')].text = <<"No reply from server">>
                    /\ UNCHANGED <<session, storage>>
               ELSE log'[Len(log')].text =
                        IF frame[i].statusText # EmptyString
                        THEN <<"Error: ">> \o frame[i].statusText
                        ELSE <<"Error: ", "HTTP ", ToString(frame[i].status)>>]_vars

\* A final 429 whose body was not JSON was rendered from its status text,
\* after a first submission that got the placeholder reply.
C19_Witness ==
    /\ Len(log) = 5
    /\ log[3] = [sender |-> "bot", text |-> NoReplyText]
    /\ log[5] = [sender |-> "bot", text |-> <<"Error: ", "Too Many Requests">>]
    /\ ~inFlight
    /\ Head(session.session_id) = "sess-"

\* An Arabic character for the input handler: one its expression of line
\* 229 matches, U+0600-06FF or U+0750-077F.  The characters of the other
\* ranges of AR_RE (class "arx") are not among them.
HasArabicCharacter(val) == \E k \in 1..Len(val) : val[k] = "ar"

====
